---- MODULE Spec2Model ----
(***************************************************************************)
(* State-machine model of the e-commerce backend: catalog, cart engine,    *)
(* order engine with the payment gateway's webhook, and the support        *)
(* tickets.  The document store is modelled by one variable per            *)
(* collection; a document's _id is its position in the collection.         *)
(*                                                                         *)
(* Specifications:                                                         *)
(*   Spec         cart endpoints, one action per request handler           *)
(*   ConcSpec     cart endpoints split at their awaits (requests of        *)
(*                several clients interleave between database calls)       *)
(*   CheckoutSpec catalog administration, cart filling and createOrder     *)
(*   PaymentSpec  order life cycle: checkout, gateway, webhook, cancel,    *)
(*                admin status update                                      *)
(*   TicketSpec   support tickets                                          *)
(***************************************************************************)
EXTENDS Integers, Sequences, FiniteSets, TLC

\* ---------------------------------------------------------------- bounds
\* cart documents ever stored
MaxCarts == 2
\* order documents ever stored
MaxOrders == 1
\* messages of one ticket
MaxMsgs == 2
\* ticket documents ever stored
MaxTickets == 1
\* requests between two awaits at one time
MaxInFlight == 2
\* user documents ever stored
MaxAccounts == 3

\* ------------------------------------------------------------ identities
Users == {"u1"}
NoUser == "null"
ProductIds == {"p1", "p2"}
NoProduct == "none"

\* guest_id cookie values: 0 is "no cookie"; an id above the number of stored
\* carts is the _id of no cart
GuestIds == 0..MaxCarts

VARIABLES
  products,   \* catalog collection
  carts,      \* carts collection
  orders,     \* orders collection
  gateway,    \* the payment gateway's checkout sessions and refunds
  tickets,    \* tickets collection
  inflight,   \* requests between two awaits (ConcSpec)
  accounts,   \* users collection
  last        \* the latest response

vars == <<products, carts, orders, gateway, tickets, inflight, accounts, last>>

\* what the cart handlers leave alone
others == <<orders, gateway, tickets, inflight, accounts>>

\* ------------------------------------------------------ request / response
\* `last' is the response of the latest request: the operation (the name the
\* handler logs) and the HTTP status it answered with.  Some handlers tell
\* more:
\*   addToCart       the cart returned, the product and the quantity of
\*                   "Added ${quantity} x ${product.title} to cart"
\*   createOrder     the product named by a 400 of the validation loop; data:
\*                   the message of the other 400s
\*   handleWebhook   data: the stripe-signature header the request came with;
\*                   processed, message, order: the result the handler
\*                   reported, with the order number its message names
\*   addMessage      data: the status of the ticket in the body, which is the
\*                   document as repository.addMessage returned it
NoLast ==
  [op |-> "none", status |-> 0, cart |-> 0, product |-> NoProduct, qty |-> 0,
   data |-> "", processed |-> FALSE, message |-> "", order |-> 0]

Response(op, status) == [NoLast EXCEPT !.op = op, !.status = status]

Added(c, p, q) ==
  [Response("addToCart", 200) EXCEPT !.cart = c, !.product = p, !.qty = q]

\* ---------------------------------------------------------------- catalog
\* The catalog at start: two products in stock.  A deleted product keeps its
\* id with exists = FALSE (findById answers null for it).
SeedCatalog ==
  [p \in ProductIds |->
     IF p = "p1" THEN [exists |-> TRUE, title |-> "A", price |-> 10, stock |-> 2]
     ELSE [exists |-> TRUE, title |-> "B", price |-> 5, stock |-> 1]]

\* ProductRepository.findById: the product document, or null
ProductFindById(ps, p) == IF p \in DOMAIN ps /\ ps[p].exists THEN p ELSE NoProduct

\* ------------------------------------------------------------ cart engine
\* Array.prototype.findIndex on productId: first matching position, 0 for -1
findIndex(items, p) ==
  LET S == {i \in 1..Len(items) : items[i].productId = p}
  IN IF S = {} THEN 0 ELSE CHOOSE i \in S : \A j \in S : i <= j

\* items.reduce((total, item) => total + item.quantity, 0)
RECURSIVE reduceQuantity(_, _, _)
reduceQuantity(items, i, total) ==
  IF i > Len(items) THEN total
  ELSE reduceQuantity(items, i + 1, total + items[i].quantity)

\* items.reduce((total, item) => total + (item.price * item.quantity), 0)
RECURSIVE reduceAmount(_, _, _)
reduceAmount(items, i, total) ==
  IF i > Len(items) THEN total
  ELSE reduceAmount(items, i + 1, total + (items[i].price * items[i].quantity))

\* the "Recalculate totals" block followed by cart.save()
recalculate(cart, items) ==
  [cart EXCEPT !.items = items,
               !.totalItems = reduceQuantity(items, 1, 0),
               !.totalAmount = reduceAmount(items, 1, 0)]

\* the document getCart / getOrCreateCart create
NewCart(u) ==
  [userId |-> u, items |-> <<>>, totalAmount |-> 0, totalItems |-> 0,
   isActive |-> TRUE]

\* CartRepository.findByUserId: findOne({userId, isActive: true}); the
\* store returns any one matching document; {0} when there is none
FindByUserId(cs, u) ==
  LET S == {i \in 1..Len(cs) : cs[i].userId = u /\ cs[i].isActive}
  IN IF S = {} THEN {0} ELSE S

\* CartRepository.findById: by _id, whatever the owner and the active flag
FindById(cs, id) == IF id \in 1..Len(cs) THEN id ELSE 0

\* the lookup of CartRepository.getOrCreateCart: ids it may resolve to, 0
\* when it goes on to create a cart
getOrCreateLookup(cs, u, g) ==
  IF u # NoUser THEN FindByUserId(cs, u)
  ELSE IF g # 0 THEN {FindById(cs, g)}
  ELSE {0}

\* the item CartController.addToCart builds from the product it read
CartItem(ps, p, q) ==
  [productId |-> p, title |-> ps[p].title, price |-> ps[p].price, quantity |-> q]

\* addItem without the lookup of an existing line: the item is always pushed
addItemAlwaysPush(cart, item) == recalculate(cart, Append(cart.items, item))

\* CartRepository.addItem on the document it read
addItem(cart, item) ==
  LET existingItemIndex == findIndex(cart.items, item.productId)
  IN IF existingItemIndex > 0
     THEN recalculate(cart,
            [cart.items EXCEPT ![existingItemIndex].quantity = @ + item.quantity])
     ELSE recalculate(cart, Append(cart.items, item))

\* Array.prototype.splice(itemIndex, 1)
splice(items, itemIndex) ==
  [i \in 1..(Len(items) - 1) |-> IF i < itemIndex THEN items[i] ELSE items[i + 1]]

\* CartRepository.updateItemQuantity on a document holding the product
updateItemQuantity(cart, p, q) ==
  LET itemIndex == findIndex(cart.items, p)
  IN IF q <= 0
     THEN recalculate(cart, splice(cart.items, itemIndex))
     ELSE recalculate(cart, [cart.items EXCEPT ![itemIndex].quantity = q])

\* Array.prototype.filter(item => item.productId !== productId)
RECURSIVE filterOut(_, _)
filterOut(items, p) ==
  IF items = <<>> THEN <<>>
  ELSE IF Head(items).productId # p
       THEN <<Head(items)>> \o filterOut(Tail(items), p)
       ELSE filterOut(Tail(items), p)

\* removeItem that filters the lines and keeps the cached totals
removeItemStaleTotals(cart, p) == [cart EXCEPT !.items = filterOut(cart.items, p)]

\* CartRepository.removeItem on the document it read
removeItem(cart, p) == recalculate(cart, filterOut(cart.items, p))

\* a clearing that empties the lines and leaves the totals as they were
clearCartStaleTotals(cart) == [cart EXCEPT !.items = <<>>]

\* CartRepository.clearCart on the document it read
clearCart(cart) ==
  [cart EXCEPT !.items = <<>>, !.totalItems = 0, !.totalAmount = 0]

\* CartRepository.deactivateCart
deactivateCart(cs, id) ==
  IF id \in 1..Len(cs) THEN [cs EXCEPT ![id].isActive = FALSE] ELSE cs

\* the merge loop with the guest's quantity replacing the user's
RECURSIVE mergeItemsOverwrite(_, _, _)
mergeItemsOverwrite(userItems, guestItems, i) ==
  IF i > Len(guestItems) THEN userItems
  ELSE LET guestItem == guestItems[i]
           existingItemIndex == findIndex(userItems, guestItem.productId)
       IN IF existingItemIndex > 0
          THEN mergeItemsOverwrite(
                 [userItems EXCEPT
                    ![existingItemIndex].quantity = guestItem.quantity],
                 guestItems, i + 1)
          ELSE mergeItemsOverwrite(Append(userItems, guestItem), guestItems, i + 1)

\* the merge loop of CartRepository.mergeGuestCart over guestCart.items
RECURSIVE mergeItems(_, _, _)
mergeItems(userItems, guestItems, i) ==
  IF i > Len(guestItems) THEN userItems
  ELSE LET guestItem == guestItems[i]
           existingItemIndex == findIndex(userItems, guestItem.productId)
       IN IF existingItemIndex > 0
          THEN mergeItems(
                 [userItems EXCEPT
                    ![existingItemIndex].quantity = @ + guestItem.quantity],
                 guestItems, i + 1)
          ELSE mergeItems(Append(userItems, guestItem), guestItems, i + 1)

\* the carts together hold no more units than the seeded catalog has in stock
MaxUnits == SeedCatalog["p1"].stock + SeedCatalog["p2"].stock

RECURSIVE UnitsOf(_, _)
UnitsOf(cs, i) ==
  IF i > Len(cs) THEN 0
  ELSE reduceQuantity(cs[i].items, 1, 0) + UnitsOf(cs, i + 1)

WithinUnits(cs) == UnitsOf(cs, 1) <= MaxUnits

\* ------------------------------------------------- cart request handlers
\* Requests carry the user of the token (NoUser without one) and the
\* guest_id cookie.  The handlers other than mergeGuestCart ignore the cookie
\* of an authenticated request, so those are enumerated without one.
Identities ==
  {<<u, 0>> : u \in Users} \cup {<<NoUser, g>> : g \in GuestIds}

QtyInputs == {0, 1, 2}
SetQtyInputs == {-1} \cup QtyInputs

\* CartController.getCart
GetCart(u, g) ==
  \E found \in (IF u # NoUser THEN FindByUserId(carts, u)
                ELSE IF g = 0 THEN {0} ELSE {FindById(carts, g)}) :
    /\ IF found = 0
       THEN /\ Len(carts) < MaxCarts
            /\ carts' = Append(carts, NewCart(u))
            /\ last' = Response("getCart", 200)
       ELSE /\ carts' = carts
            /\ last' = Response("getCart", 200)
    /\ UNCHANGED <<products, others>>

\* CartController.addToCart
AddToCart(u, g, p, q) ==
  IF q <= 0
  THEN /\ last' = Response("addToCart", 400)
       /\ UNCHANGED <<products, carts, others>>
  ELSE IF ProductFindById(products, p) = NoProduct
  THEN /\ last' = Response("addToCart", 404)
       /\ UNCHANGED <<products, carts, others>>
  ELSE \E found \in getOrCreateLookup(carts, u, g) :
         LET cs == IF found = 0 THEN Append(carts, NewCart(u)) ELSE carts
             id == IF found = 0 THEN Len(carts) + 1 ELSE found
             saved == addItem(cs[id], CartItem(products, p, q))
         IN /\ Len(cs) <= MaxCarts
            /\ WithinUnits([cs EXCEPT ![id] = saved])
            /\ carts' = [cs EXCEPT ![id] = saved]
            /\ last' = Added(id, p, q)
            /\ UNCHANGED <<products, others>>

\* CartController.updateCartItem
UpdateCartItem(u, g, p, q) ==
  IF q <= 0    \* !productIdStr || !quantity || quantity <= 0
  THEN /\ last' = Response("updateCartItem", 400)
       /\ UNCHANGED <<products, carts, others>>
  ELSE \E found \in getOrCreateLookup(carts, u, g) :
         LET cs == IF found = 0 THEN Append(carts, NewCart(u)) ELSE carts
             id == IF found = 0 THEN Len(carts) + 1 ELSE found
         IN /\ Len(cs) <= MaxCarts
            /\ UNCHANGED <<products, others>>
            /\ IF ProductFindById(products, p) = NoProduct
               THEN /\ carts' = cs
                    /\ last' = Response("updateCartItem", 404)
               ELSE IF products[p].stock < q
               THEN /\ carts' = cs
                    /\ last' = Response("updateCartItem", 400)
               ELSE IF findIndex(cs[id].items, p) = 0
               THEN /\ carts' = cs
                    /\ last' = Response("updateCartItem", 404)
               ELSE /\ carts' = [cs EXCEPT ![id] = updateItemQuantity(cs[id], p, q)]
                    /\ last' = Response("updateCartItem", 200)

\* CartController.removeFromCart
RemoveFromCart(u, g, p) ==
  \E found \in getOrCreateLookup(carts, u, g) :
    LET cs == IF found = 0 THEN Append(carts, NewCart(u)) ELSE carts
        id == IF found = 0 THEN Len(carts) + 1 ELSE found
    IN /\ Len(cs) <= MaxCarts
       /\ carts' = [cs EXCEPT ![id] = removeItem(cs[id], p)]
       /\ last' = Response("removeFromCart", 200)
       /\ UNCHANGED <<products, others>>

\* CartController.clearCart
ClearCart(u, g) ==
  \E found \in getOrCreateLookup(carts, u, g) :
    LET cs == IF found = 0 THEN Append(carts, NewCart(u)) ELSE carts
        id == IF found = 0 THEN Len(carts) + 1 ELSE found
    IN /\ Len(cs) <= MaxCarts
       /\ carts' = [cs EXCEPT ![id] = clearCart(cs[id])]
       /\ last' = Response("clearCart", 200)
       /\ UNCHANGED <<products, others>>

\* re-owning that also resets the cart's content
reownCartEmptied(cs, guestCartId, u) ==
  [cs EXCEPT ![guestCartId] = NewCart(u)]

\* CartRepository.mergeGuestCart, the branch of a user without a cart:
\* findByIdAndUpdate(guestCartId, { userId })
reownCart(cs, guestCartId, u) == [cs EXCEPT ![guestCartId].userId = u]

\* CartRepository.mergeGuestCart, the branch of a user with a cart: the user
\* cart is saved with the merged items, then the guest cart is deactivated
mergeInto(cs, guestCartId, userCartId) ==
  LET merged == recalculate(cs[userCartId],
                  mergeItems(cs[userCartId].items, cs[guestCartId].items, 1))
  IN deactivateCart([cs EXCEPT ![userCartId] = merged], guestCartId)

\* CartController.mergeGuestCart (behind authenticateToken: u is a user)
MergeGuestCart(u, g) ==
  /\ UNCHANGED <<products, others>>
  /\ IF g = 0
     THEN /\ carts' = carts
          /\ last' = Response("mergeGuestCart", 400)
     ELSE IF FindById(carts, g) = 0
     THEN /\ carts' = carts
          /\ last' = Response("mergeGuestCart", 404)
     ELSE \E userCart \in FindByUserId(carts, u) :
            IF userCart = 0
            THEN /\ carts' = reownCart(carts, g, u)
                 /\ last' = Response("mergeGuestCart", 200)
            ELSE LET cs == mergeInto(carts, g, userCart)
                 IN /\ WithinUnits(cs)
                    /\ carts' = cs
                    /\ last' = Response("mergeGuestCart", 200)

\* ------------------------------------------------ catalog administration
\* stock values an administrator writes
StockInputs == {0}

\* ProductController.updateProduct with the body { stock }
UpdateProduct(p, stock) ==
  /\ UNCHANGED <<carts, others>>
  /\ IF ProductFindById(products, p) = NoProduct
     THEN /\ products' = products
          /\ last' = Response("updateProduct", 404)
     ELSE /\ products' = [products EXCEPT ![p].stock = stock]
          /\ last' = Response("updateProduct", 200)

\* what an administrator renames and reprices a product to
ListingInputs == {[title |-> "A2", price |-> 7]}

\* ProductController.updateProduct with the body { title, price }
UpdateProductListing(p, listing) ==
  /\ UNCHANGED <<carts, others>>
  /\ IF ProductFindById(products, p) = NoProduct
     THEN /\ products' = products
          /\ last' = Response("updateProduct", 404)
     ELSE /\ products' = [products EXCEPT ![p].title = listing.title,
                                          ![p].price = listing.price]
          /\ last' = Response("updateProduct", 200)

\* ProductController.deleteProduct
DeleteProduct(p) ==
  /\ UNCHANGED <<carts, others>>
  /\ IF ProductFindById(products, p) = NoProduct
     THEN /\ products' = products
          /\ last' = Response("deleteProduct", 404)
     ELSE /\ products' = [products EXCEPT
                            ![p] = [exists |-> FALSE, title |-> "", price |-> 0,
                                    stock |-> 0]]
          /\ last' = Response("deleteProduct", 200)

\* ----------------------------------------------------------- order engine
\* an order line copied from the cart line, with the title and price captured
\* when the product was added
OrderItemFromCart(ps, cartItem) ==
  [productId |-> cartItem.productId, title |-> cartItem.title,
   price |-> cartItem.price, quantity |-> cartItem.quantity]

\* orderItems.push({...}) of createOrder: title and price of the product
\* document read in the loop, quantity of the cart line
OrderItem(ps, cartItem) ==
  [productId |-> cartItem.productId, title |-> ps[cartItem.productId].title,
   price |-> ps[cartItem.productId].price, quantity |-> cartItem.quantity]

\* a validation loop that leaves a failing line out and goes on
RECURSIVE validateLinesSkipping(_, _, _, _)
validateLinesSkipping(ps, items, i, orderItems) ==
  IF i > Len(items) THEN [failed |-> NoProduct, orderItems |-> orderItems]
  ELSE LET cartItem == items[i]
       IN IF \/ ProductFindById(ps, cartItem.productId) = NoProduct
             \/ ps[cartItem.productId].stock < cartItem.quantity
          THEN validateLinesSkipping(ps, items, i + 1, orderItems)
          ELSE validateLinesSkipping(ps, items, i + 1,
                                     Append(orderItems, OrderItem(ps, cartItem)))

\* the loop "for (const cartItem of cart.items)" of createOrder: the product
\* of the first line it returns 400 for, or the order lines
RECURSIVE validateLines(_, _, _, _)
validateLines(ps, items, i, orderItems) ==
  IF i > Len(items) THEN [failed |-> NoProduct, orderItems |-> orderItems]
  ELSE LET cartItem == items[i]
       IN IF ProductFindById(ps, cartItem.productId) = NoProduct
          THEN [failed |-> cartItem.productId, orderItems |-> <<>>]
          ELSE IF ps[cartItem.productId].stock < cartItem.quantity
          THEN [failed |-> cartItem.productId, orderItems |-> <<>>]
          ELSE validateLines(ps, items, i + 1,
                             Append(orderItems, OrderItem(ps, cartItem)))

\* the document orderRepository.create stores; orderNumber is unique, here
\* the order's position
NewOrder(u, orderItems, paymentMethod) ==
  [userId |-> u, items |-> orderItems,
   totalAmount |-> reduceAmount(orderItems, 1, 0),
   totalItems |-> reduceQuantity(orderItems, 1, 0),
   paymentMethod |-> paymentMethod, paymentStatus |-> "PENDING",
   orderStatus |-> "PENDING", sessionId |-> 0, transactionId |-> 0,
   isActive |-> TRUE]

\* the checkout session stripe.checkout.sessions.create answers with
NewSession(o) == [order |-> o, payment_status |-> "unpaid", refunded |-> FALSE]

MethodInputs == {"", "ONLINE", "COD", "CARD"}

RejectedLine(p) == [Response("createOrder", 400) EXCEPT !.product = p]

\* a body check that does not ask an ONLINE request for its two URLs
bodyErrorUrlsOptional(shippingAddress, paymentMethod, urls) ==
  IF ~shippingAddress \/ paymentMethod = ""
  THEN "Shipping address and payment method are required"
  ELSE IF paymentMethod \notin {"ONLINE", "COD"}
  THEN "Invalid payment method. Must be ONLINE or COD"
  ELSE ""

\* the three checks createOrder makes on req.body before it reads anything:
\* the message of the 400 it answers, "" if the body passes.  `urls' tells
\* whether successUrl and cancelUrl are both there.
bodyError(shippingAddress, paymentMethod, urls) ==
  IF ~shippingAddress \/ paymentMethod = ""
  THEN "Shipping address and payment method are required"
  ELSE IF paymentMethod \notin {"ONLINE", "COD"}
  THEN "Invalid payment method. Must be ONLINE or COD"
  ELSE IF paymentMethod = "ONLINE" /\ ~urls
  THEN "Success URL and cancel URL are required for online payment"
  ELSE ""

\* a 400 of createOrder with its message
Rejected(message) == [Response("createOrder", 400) EXCEPT !.data = message]

\* a soft delete that writes nothing
deactivateOrderNoop(os, orderId) == os

\* OrderRepository.deactivateOrder: findByIdAndUpdate(orderId, {isActive: false})
deactivateOrder(os, orderId) == [os EXCEPT ![orderId].isActive = FALSE]

\* OrderController.createOrder (behind authenticateToken); `up' tells whether
\* the gateway answers the session request; at most `cap' orders are stored
CreateOrderWithin(cap, u, shippingAddress, paymentMethod, urls, up) ==
  /\ UNCHANGED <<products, tickets, accounts, inflight>>
  /\ IF bodyError(shippingAddress, paymentMethod, urls) # ""
     THEN /\ last' = Rejected(bodyError(shippingAddress, paymentMethod, urls))
          /\ UNCHANGED <<carts, orders, gateway>>
     ELSE \E cart \in FindByUserId(carts, u) :
       IF cart = 0 \/ Len(carts[cart].items) = 0
       THEN /\ last' = Rejected("Cart is empty. Add items to cart before placing order")
            /\ UNCHANGED <<carts, orders, gateway>>
       ELSE LET v == validateLines(products, carts[cart].items, 1, <<>>)
                order == NewOrder(u, v.orderItems, paymentMethod)
            IN IF v.failed # NoProduct
               THEN /\ last' = RejectedLine(v.failed)
                    /\ UNCHANGED <<carts, orders, gateway>>
               ELSE /\ Len(orders) < cap
                    /\ IF paymentMethod = "ONLINE" /\ ~up
                       THEN /\ orders' = deactivateOrder(Append(orders, order),
                                                          Len(orders) + 1)
                            /\ last' = Response("createOrder", 500)
                            /\ UNCHANGED <<carts, gateway>>
                       ELSE /\ IF paymentMethod = "ONLINE"
                               THEN /\ gateway' = Append(gateway,
                                                    NewSession(Len(orders) + 1))
                                    /\ orders' = Append(orders,
                                         [order EXCEPT
                                            !.sessionId = Len(gateway) + 1])
                               ELSE /\ gateway' = gateway
                                    /\ orders' = Append(orders, order)
                            /\ carts' = [carts EXCEPT
                                           ![cart] = clearCart(carts[cart])]
                            /\ last' = Response("createOrder", 201)

\* createOrder with the number of orders the specifications keep to
CreateOrder(u, shippingAddress, paymentMethod, urls, up) ==
  CreateOrderWithin(MaxOrders, u, shippingAddress, paymentMethod, urls, up)

\* ------------------------------------------------- gateway and webhook
\* users of the service who own no document
Strangers == {"u2"}

\* the customer pays on the gateway's hosted page (mode: 'payment')
GatewayPay(sessionId) ==
  /\ sessionId \in 1..Len(gateway)
  /\ gateway[sessionId].payment_status = "unpaid"
  /\ gateway' = [gateway EXCEPT ![sessionId].payment_status = "paid"]
  /\ last' = Response("gatewayPay", 200)
  /\ UNCHANGED <<products, carts, orders, tickets, accounts, inflight>>

\* a lookup whose filter lost the order number: findOne({isActive: true})
findByOrderNumberAnyNumber(os, orderNum) ==
  IF \E o \in 1..Len(os) : os[o].isActive
  THEN CHOOSE o \in 1..Len(os) : os[o].isActive /\ \A n \in 1..(o - 1) : ~os[n].isActive
  ELSE 0

\* OrderRepository.findByOrderNumber: findOne({orderNumber, isActive: true})
findByOrderNumber(os, orderNum) ==
  IF orderNum \in 1..Len(os) /\ os[orderNum].isActive THEN orderNum ELSE 0

\* an update that takes a transaction id the order already has for a replay
\* and resets the payment
updatePaymentStatusReplayResets(os, orderId, status, transactionId) ==
  [os EXCEPT ![orderId].paymentStatus =
               IF os[orderId].transactionId = transactionId THEN "PENDING"
               ELSE status,
             ![orderId].transactionId = transactionId]

\* OrderRepository.updatePaymentStatus with a transaction id
updatePaymentStatus(os, orderId, status, transactionId) ==
  [os EXCEPT ![orderId].paymentStatus = status,
             ![orderId].transactionId = transactionId]

\* The event objects reaching processWebhookEvent.  A body sent without a
\* signature is taken as it is: its id, orderNum and payment_status are the
\* sender's (0 for a field left out).  An event the gateway signed is the
\* gateway's event object: its id is the event's own id, which is the id of
\* no session, and it has no orderNum and no metadata of its own; the session
\* it is about is its data.object (`object'), which carries the metadata
\* createOrder attached (orderId, orderNumber, userId).
EventId == -1
BodyEvent(type, id, orderNum, payment_status) ==
  [type |-> type, id |-> id, object |-> 0, orderNum |-> orderNum,
   payment_status |-> payment_status]
SignedEvent(type, object, payment_status) ==
  [type |-> type, id |-> EventId, object |-> object, orderNum |-> 0,
   payment_status |-> payment_status]

\* what the two webhook functions return: {processed, message}, the message
\* as its text and the order number it names, here with the orders they leave
Result(processed, message, orderNum, os) ==
  [processed |-> processed, message |-> message, order |-> orderNum,
   orders |-> os]

\* a handler that writes the status the event itself carries
handleCheckoutSessionCompletedTrusting(os, gw, session) ==
  LET sessionId == IF session.id # 0 THEN session.id ELSE session.object
      orderNum == session.orderNum
      order == findByOrderNumber(os, orderNum)
  IN IF sessionId = 0 \/ orderNum = 0
     THEN Result(FALSE, "Missing session ID or order ID", 0, os)
     ELSE IF sessionId \notin 1..Len(gw)
     THEN Result(FALSE, "Failed to retrieve session from Stripe", 0, os)
     ELSE IF order = 0 THEN Result(FALSE, "Order not found", orderNum, os)
     ELSE Result(TRUE, "Checkout processed for order", order,
            updatePaymentStatus(os, order,
              IF session.payment_status = "paid" THEN "PAID" ELSE "PENDING",
              sessionId))

\* StripeWebhookController.handleCheckoutSessionCompleted
handleCheckoutSessionCompleted(os, gw, session) ==
  LET sessionId == IF session.id # 0 THEN session.id ELSE session.object
      orderNum == session.orderNum
      order == findByOrderNumber(os, orderNum)
  IN IF sessionId = 0 \/ orderNum = 0
     THEN Result(FALSE, "Missing session ID or order ID", 0, os)
     ELSE IF sessionId \notin 1..Len(gw)   \* retrieveCheckoutSession throws
     THEN Result(FALSE, "Failed to retrieve session from Stripe", 0, os)
     ELSE IF order = 0 THEN Result(FALSE, "Order not found", orderNum, os)
     ELSE Result(TRUE, "Checkout processed for order", order,
            updatePaymentStatus(os, order,
              IF gw[sessionId].payment_status = "paid" THEN "PAID" ELSE "PENDING",
              sessionId))

\* StripeWebhookController.processWebhookEvent
processWebhookEvent(os, gw, event) ==
  IF event.type = "checkout.session.completed"
  THEN handleCheckoutSessionCompleted(os, gw, event)
  ELSE Result(FALSE, "Unhandled event type", 0, os)

\* stripe-signature headers: none, the test value, one the gateway made for
\* the body, one that does not verify
SigInputs == {"", "test-signature", "valid", "invalid"}
TypeInputs == {"", "checkout.session.completed", "payment_intent.succeeded"}
\* the payment status an event says its session has
PaidInputs == {"paid", "unpaid"}

\* the 400 of the webhook route
WebhookRefused(sig, message) ==
  [Response("handleWebhook", 400) EXCEPT !.data = sig, !.message = message]

\* the 200 of the webhook route: the same for every result but for its message
WebhookReceived(sig, result) ==
  [Response("handleWebhook", 200) EXCEPT
     !.data = sig, !.processed = result.processed,
     !.message = result.message, !.order = result.order]

\* StripeWebhookController.handleWebhook (the route has no authentication);
\* id: the id of an unsigned body, the data.object.id of a signed event
HandleWebhook(sig, type, id, orderNum, payment_status) ==
  /\ UNCHANGED <<products, carts, gateway, tickets, accounts, inflight>>
  /\ IF sig # "" /\ sig # "test-signature"
     THEN IF sig = "invalid"   \* verifyWebhookSignature throws
          THEN /\ orders' = orders
               /\ last' = WebhookRefused(sig, "Webhook signature verification failed")
          ELSE LET result == processWebhookEvent(orders, gateway,
                               SignedEvent(type, id, payment_status))
               IN /\ orders' = result.orders
                  /\ last' = WebhookReceived(sig, result)
     ELSE IF type = ""
          THEN /\ orders' = orders
               /\ last' = WebhookRefused(sig, "Invalid webhook event structure")
          ELSE LET result == processWebhookEvent(orders, gateway,
                               BodyEvent(type, id, orderNum, payment_status))
               IN /\ orders' = result.orders
                  /\ last' = WebhookReceived(sig, result)

\* StripeService.createRefund: needs the session's payment intent, which a
\* session has once it is paid; the gateway refuses a second refund
createRefund(gw, sessionId) ==
  IF sessionId \in 1..Len(gw) /\ gw[sessionId].payment_status = "paid"
     /\ ~gw[sessionId].refunded
  THEN [gw EXCEPT ![sessionId].refunded = TRUE]
  ELSE gw

\* a cancellation that also marks the payment as refunded
cancelOrderMarkingRefunded(os, orderId) ==
  [os EXCEPT ![orderId].orderStatus = "CANCELLED",
             ![orderId].paymentStatus = "REFUNDED"]

\* OrderRepository.cancelOrder: findByIdAndUpdate(orderId, {orderStatus: 'CANCELLED'})
cancelOrder(os, orderId) == [os EXCEPT ![orderId].orderStatus = "CANCELLED"]

\* OrderRepository.updateOrderStatus: findByIdAndUpdate(orderId, {orderStatus: status})
updateOrderStatus(os, orderId, status) == [os EXCEPT ![orderId].orderStatus = status]

\* a cancellation that gives up when the refund fails: the error reaches the
\* error handler and the order is left as it was
CancelOrderRefundFatal(u, orderId, up) ==
  /\ UNCHANGED <<products, carts, tickets, accounts, inflight>>
  /\ IF orderId \notin 1..Len(orders)
     THEN /\ last' = Response("cancelOrder", 404)
          /\ UNCHANGED <<orders, gateway>>
     ELSE IF orders[orderId].userId # u
     THEN /\ last' = Response("cancelOrder", 403)
          /\ UNCHANGED <<orders, gateway>>
     ELSE IF orders[orderId].orderStatus \in {"SHIPPED", "DELIVERED"}
     THEN /\ last' = Response("cancelOrder", 400)
          /\ UNCHANGED <<orders, gateway>>
     ELSE IF /\ orders[orderId].paymentStatus = "PAID"
             /\ orders[orderId].sessionId # 0
             /\ (~up \/ createRefund(gateway, orders[orderId].sessionId) = gateway)
     THEN /\ last' = Response("cancelOrder", 500)
          /\ UNCHANGED <<orders, gateway>>
     ELSE /\ gateway' = IF /\ orders[orderId].paymentStatus = "PAID"
                           /\ orders[orderId].sessionId # 0
                        THEN createRefund(gateway, orders[orderId].sessionId)
                        ELSE gateway
          /\ orders' = cancelOrder(orders, orderId)
          /\ last' = Response("cancelOrder", 200)

\* OrderController.cancelOrder (behind authenticateToken); `up' tells
\* whether the gateway answers the refund request
CancelOrder(u, orderId, up) ==
  /\ UNCHANGED <<products, carts, tickets, accounts, inflight>>
  /\ IF orderId \notin 1..Len(orders)
     THEN /\ last' = Response("cancelOrder", 404)
          /\ UNCHANGED <<orders, gateway>>
     ELSE IF orders[orderId].userId # u
     THEN /\ last' = Response("cancelOrder", 403)
          /\ UNCHANGED <<orders, gateway>>
     ELSE IF orders[orderId].orderStatus \in {"SHIPPED", "DELIVERED"}
     THEN /\ last' = Response("cancelOrder", 400)
          /\ UNCHANGED <<orders, gateway>>
     ELSE /\ gateway' = IF /\ orders[orderId].paymentStatus = "PAID"
                           /\ orders[orderId].sessionId # 0
                           /\ up
                        THEN createRefund(gateway, orders[orderId].sessionId)
                        ELSE gateway
          /\ orders' = cancelOrder(orders, orderId)
          /\ last' = Response("cancelOrder", 200)

validStatuses == {"PENDING", "CONFIRMED", "SHIPPED", "DELIVERED", "CANCELLED"}
\* statuses of a request body; "RETURNED" is none of validStatuses
StatusInputs == {"SHIPPED", "DELIVERED", "CANCELLED", "RETURNED"}

\* OrderController.updateOrderStatus (behind requireAdmin)
UpdateOrderStatus(orderId, status) ==
  /\ UNCHANGED <<products, carts, gateway, tickets, accounts, inflight>>
  /\ IF status \notin validStatuses
     THEN /\ orders' = orders
          /\ last' = Response("updateOrderStatus", 400)
     ELSE IF orderId \notin 1..Len(orders)
     THEN /\ orders' = orders
          /\ last' = Response("updateOrderStatus", 404)
     ELSE /\ orders' = updateOrderStatus(orders, orderId, status)
          /\ last' = Response("updateOrderStatus", 200)

\* -------------------------------------------------------- support tickets
\* message texts of a request body; "" is a body without one
MsgInputs == {"", "m1", "m2"}
\* priorities of a request body; "asap" is none of the enum
PriorityInputs == {"high", "asap"}
TicketStatus == {"open", "in_progress", "waiting_customer", "resolved", "closed"}
\* statuses of a request body; "reopened" is none of the enum
TicketStatusInputs == {"waiting_customer", "resolved", "reopened"}
TicketPriority == {"low", "medium", "high", "urgent"}

\* the message document the user routes build: the sender is always USER
Message(u, m) == [sender |-> u, senderRole |-> "user", message |-> m]

\* TicketRepository.findByTicketId; the ticketId is unique, here the position
findByTicketId(ts, ticketId) == IF ticketId \in 1..Len(ts) THEN ticketId ELSE 0

\* an update that sets the message list to the new message
addMessageReplacing(ts, ticketId, messageData) ==
  [ts EXCEPT ![ticketId].messages = <<messageData>>]

\* TicketRepository.addMessage: $push on messages
addMessage(ts, ticketId, messageData) ==
  [ts EXCEPT ![ticketId].messages = Append(@, messageData)]

\* TicketRepository.updateStatus: $set on status
updateStatus(ts, ticketId, status) == [ts EXCEPT ![ticketId].status = status]

\* a customer message that leaves the status as it was read
newStatusKept(status) == status

\* "Update ticket status based on customer message" of addMessage
newStatus(status) == IF status = "waiting_customer" THEN "open" ELSE status

\* TicketController.createTicket (behind authenticateToken)
CreateTicket(u, message, priority) ==
  /\ UNCHANGED <<products, carts, orders, gateway, inflight, accounts>>
  /\ IF message = ""
     THEN /\ tickets' = tickets
          /\ last' = Response("createTicket", 400)
     ELSE /\ Len(tickets) < MaxTickets
          /\ tickets' = Append(tickets,
               [user |-> u, status |-> "open",
                priority |-> IF priority = "" THEN "medium" ELSE priority,
                isEscalated |-> FALSE, messages |-> <<Message(u, message)>>])
          /\ last' = Response("createTicket", 201)

\* TicketController.addMessage (behind authenticateToken)
AddMessage(u, ticketId, message) ==
  /\ UNCHANGED <<products, carts, orders, gateway, inflight, accounts>>
  /\ IF message = ""
     THEN /\ tickets' = tickets
          /\ last' = Response("addMessage", 400)
     ELSE IF findByTicketId(tickets, ticketId) = 0
     THEN /\ tickets' = tickets
          /\ last' = Response("addMessage", 404)
     ELSE IF tickets[ticketId].user # u
     THEN /\ tickets' = tickets
          /\ last' = Response("addMessage", 403)
     ELSE LET ticket == tickets[ticketId]
              updatedTicket == addMessage(tickets, ticketId, Message(u, message))
          IN /\ Len(ticket.messages) < MaxMsgs
             /\ tickets' = updateStatus(updatedTicket, ticketId,
                                        newStatus(ticket.status))
             /\ last' = [Response("addMessage", 200) EXCEPT
                           !.data = updatedTicket[ticketId].status]

\* TicketController.closeTicket (behind authenticateToken)
CloseTicket(u, ticketId) ==
  /\ UNCHANGED <<products, carts, orders, gateway, inflight, accounts>>
  /\ IF findByTicketId(tickets, ticketId) = 0
     THEN /\ tickets' = tickets
          /\ last' = Response("closeTicket", 404)
     ELSE IF tickets[ticketId].user # u
     THEN /\ tickets' = tickets
          /\ last' = Response("closeTicket", 403)
     ELSE /\ tickets' = updateStatus(tickets, ticketId, "closed")
          /\ last' = Response("closeTicket", 200)

\* TicketController.updateTicketStatus (behind requireAdmin)
UpdateTicketStatus(ticketId, status) ==
  /\ UNCHANGED <<products, carts, orders, gateway, inflight, accounts>>
  /\ IF status \notin TicketStatus
     THEN /\ tickets' = tickets
          /\ last' = Response("updateTicketStatus", 400)
     ELSE IF findByTicketId(tickets, ticketId) = 0
     THEN /\ tickets' = tickets
          /\ last' = Response("updateTicketStatus", 404)
     ELSE /\ tickets' = updateStatus(tickets, ticketId, status)
          /\ last' = Response("updateTicketStatus", 200)

\* TicketController.updateTicketPriority (behind requireAdmin)
UpdateTicketPriority(ticketId, priority) ==
  /\ UNCHANGED <<products, carts, orders, gateway, inflight, accounts>>
  /\ IF priority \notin TicketPriority
     THEN /\ tickets' = tickets
          /\ last' = Response("updateTicketPriority", 400)
     ELSE IF findByTicketId(tickets, ticketId) = 0
     THEN /\ tickets' = tickets
          /\ last' = Response("updateTicketPriority", 404)
     ELSE /\ tickets' = [tickets EXCEPT ![ticketId].priority = priority]
          /\ last' = Response("updateTicketPriority", 200)

\* TicketController.escalateTicket (behind requireAdmin)
EscalateTicket(ticketId) ==
  /\ UNCHANGED <<products, carts, orders, gateway, inflight, accounts>>
  /\ IF findByTicketId(tickets, ticketId) = 0
     THEN /\ tickets' = tickets
          /\ last' = Response("escalateTicket", 404)
     ELSE /\ tickets' = [tickets EXCEPT ![ticketId].isEscalated = TRUE]
          /\ last' = Response("escalateTicket", 200)

\* ------------------------------------- cart handlers, await by await
\* A request between two awaits is an element of `inflight': what it is, where
\* it stands (pc) and what it holds in memory: the cart id it resolved, the
\* item array of the document it read (with its own change applied) and, for
\* a merge, the guest cart's items as read.  Every step is one database call.
\* The product read of addToCart is taken together with the cart lookup
\* after it: the catalog does not change while carts are used.
Request(op, u, g, pc) ==
  [op |-> op, user |-> u, guest |-> g, pc |-> pc, cart |-> 0, items |-> <<>>,
   guestItems |-> <<>>, product |-> NoProduct, qty |-> 0]

Without(seq, i) == SubSeq(seq, 1, i - 1) \o SubSeq(seq, i + 1, Len(seq))

\* getCart up to its first database call
BeginGetCart(u, g) ==
  /\ UNCHANGED <<products, orders, gateway, tickets, accounts>>
  /\ IF u = NoUser /\ g = 0
     THEN /\ Len(carts) < MaxCarts
          /\ carts' = Append(carts, NewCart(u))
          /\ inflight' = inflight
          /\ last' = Response("getCart", 200)
     ELSE \E found \in (IF u # NoUser THEN FindByUserId(carts, u)
                        ELSE {FindById(carts, g)}) :
            /\ carts' = carts
            /\ IF found # 0
               THEN /\ inflight' = inflight
                    /\ last' = Response("getCart", 200)
               ELSE /\ Len(inflight) < MaxInFlight
                    /\ inflight' = Append(inflight, Request("getCart", u, g, "create"))
                    /\ last' = last

\* addToCart up to the lookup of getOrCreateCart
BeginAddToCart(u, g, p, q) ==
  /\ UNCHANGED <<products, carts, orders, gateway, tickets, accounts>>
  /\ IF q <= 0
     THEN /\ inflight' = inflight
          /\ last' = Response("addToCart", 400)
     ELSE IF ProductFindById(products, p) = NoProduct
     THEN /\ inflight' = inflight
          /\ last' = Response("addToCart", 404)
     ELSE \E found \in getOrCreateLookup(carts, u, g) :
            /\ Len(inflight) < MaxInFlight
            /\ inflight' = Append(inflight,
                 [Request("addToCart", u, g, IF found = 0 THEN "create" ELSE "read")
                    EXCEPT !.cart = found, !.product = p, !.qty = q])
            /\ last' = last

\* mergeGuestCart up to findById(guestCartId)
BeginMergeGuestCart(u, g) ==
  /\ UNCHANGED <<products, carts, orders, gateway, tickets, accounts>>
  /\ IF g = 0
     THEN /\ inflight' = inflight
          /\ last' = Response("mergeGuestCart", 400)
     ELSE IF FindById(carts, g) = 0
     THEN /\ inflight' = inflight
          /\ last' = Response("mergeGuestCart", 404)
     ELSE /\ Len(inflight) < MaxInFlight
          /\ inflight' = Append(inflight,
               [Request("mergeGuestCart", u, g, "findUser")
                  EXCEPT !.guestItems = carts[g].items])
          /\ last' = last

\* cartRepository.create after a lookup that found nothing
StepCreate(i) ==
  /\ inflight[i].pc = "create"
  /\ Len(carts) < MaxCarts
  /\ carts' = Append(carts, NewCart(inflight[i].user))
  /\ IF inflight[i].op = "getCart"
     THEN /\ inflight' = Without(inflight, i)
          /\ last' = Response("getCart", 200)
     ELSE /\ inflight' = [inflight EXCEPT ![i].pc = "read",
                                          ![i].cart = Len(carts) + 1]
          /\ last' = last
  /\ UNCHANGED <<products, orders, gateway, tickets, accounts>>

\* addItem: CartModel.findById(cartId) and the change made in memory
StepRead(i) ==
  LET r == inflight[i]
  IN /\ r.pc = "read"
     /\ inflight' = [inflight EXCEPT
          ![i].pc = "save",
          ![i].items = addItem(carts[r.cart],
                               CartItem(products, r.product, r.qty)).items]
     /\ UNCHANGED <<products, carts, orders, gateway, tickets, accounts, last>>

\* cart.save() of addItem and of the merge: the items held in memory and the
\* totals computed from them are written
StepSave(i) ==
  LET r == inflight[i]
      cs == [carts EXCEPT ![r.cart] = recalculate(carts[r.cart], r.items)]
  IN /\ r.pc = "save"
     /\ WithinUnits(cs)
     /\ carts' = cs
     /\ IF r.op = "addToCart"
        THEN /\ inflight' = Without(inflight, i)
             /\ last' = Added(r.cart, r.product, r.qty)
        ELSE /\ inflight' = [inflight EXCEPT ![i].pc = "deactivate"]
             /\ last' = last
     /\ UNCHANGED <<products, orders, gateway, tickets, accounts>>

\* mergeGuestCart: findByUserId(userId) and the merge loop in memory
StepFindUser(i) ==
  LET r == inflight[i]
  IN /\ r.pc = "findUser"
     /\ \E userCart \in FindByUserId(carts, r.user) :
          inflight' = IF userCart = 0
                      THEN [inflight EXCEPT ![i].pc = "reown"]
                      ELSE [inflight EXCEPT
                              ![i].pc = "save", ![i].cart = userCart,
                              ![i].items = mergeItems(carts[userCart].items,
                                                      r.guestItems, 1)]
     /\ UNCHANGED <<products, carts, orders, gateway, tickets, accounts, last>>

\* mergeGuestCart: findByIdAndUpdate(guestCartId, { userId })
StepReown(i) ==
  LET r == inflight[i]
  IN /\ r.pc = "reown"
     /\ carts' = reownCart(carts, r.guest, r.user)
     /\ inflight' = Without(inflight, i)
     /\ last' = Response("mergeGuestCart", 200)
     /\ UNCHANGED <<products, orders, gateway, tickets, accounts>>

\* mergeGuestCart: deactivateCart(guestCartId)
StepDeactivate(i) ==
  LET r == inflight[i]
  IN /\ r.pc = "deactivate"
     /\ carts' = deactivateCart(carts, r.guest)
     /\ inflight' = Without(inflight, i)
     /\ last' = Response("mergeGuestCart", 200)
     /\ UNCHANGED <<products, orders, gateway, tickets, accounts>>

\* ------------------------------------------ createOrder, await by await
\* a createOrder request after orderRepository.create and the session: the
\* cart it read at the start and the order it stored
OrderRequest(u, cart, order) ==
  [op |-> "createOrder", user |-> u, cart |-> cart, order |-> order,
   pc |-> "clear"]

\* createOrder with a valid body and the gateway up, from findByUserId to the
\* stored order and its session
BeginCreateOrder(u, paymentMethod) ==
  /\ UNCHANGED <<products, carts, tickets, accounts>>
  /\ \E cart \in FindByUserId(carts, u) :
       IF cart = 0 \/ Len(carts[cart].items) = 0
       THEN /\ last' = Rejected("Cart is empty. Add items to cart before placing order")
            /\ UNCHANGED <<orders, gateway, inflight>>
       ELSE LET v == validateLines(products, carts[cart].items, 1, <<>>)
                order == NewOrder(u, v.orderItems, paymentMethod)
            IN IF v.failed # NoProduct
               THEN /\ last' = RejectedLine(v.failed)
                    /\ UNCHANGED <<orders, gateway, inflight>>
               ELSE /\ Len(orders) < MaxOrders
                    /\ Len(inflight) < MaxInFlight
                    /\ IF paymentMethod = "ONLINE"
                       THEN /\ gateway' = Append(gateway, NewSession(Len(orders) + 1))
                            /\ orders' = Append(orders,
                                 [order EXCEPT !.sessionId = Len(gateway) + 1])
                       ELSE /\ gateway' = gateway
                            /\ orders' = Append(orders, order)
                    /\ inflight' = Append(inflight,
                                          OrderRequest(u, cart, Len(orders) + 1))
                    /\ last' = last

\* createOrder: cartRepository.clearCart(cart._id) and the answer
StepClear(i) ==
  LET r == inflight[i]
  IN /\ r.pc = "clear"
     /\ carts' = [carts EXCEPT ![r.cart] = clearCart(carts[r.cart])]
     /\ inflight' = Without(inflight, i)
     /\ last' = Response("createOrder", 201)
     /\ UNCHANGED <<products, orders, gateway, tickets, accounts>>

\* ------------------------------------------- addMessage, await by await
\* an addMessage request after its findByTicketId: the ticket it named, the
\* status of the document it read, its message, and where it is
MessageRequest(u, ticketId, status, message, pc) ==
  [op |-> "addMessage", user |-> u, ticket |-> ticketId, status |-> status,
   message |-> message, data |-> "", pc |-> pc]

\* addMessage up to and including findByTicketId and the owner check
BeginAddMessage(u, ticketId, message) ==
  /\ UNCHANGED <<products, carts, orders, gateway, tickets, accounts>>
  /\ IF message = ""
     THEN /\ inflight' = inflight
          /\ last' = Response("addMessage", 400)
     ELSE IF findByTicketId(tickets, ticketId) = 0
     THEN /\ inflight' = inflight
          /\ last' = Response("addMessage", 404)
     ELSE IF tickets[ticketId].user # u
     THEN /\ inflight' = inflight
          /\ last' = Response("addMessage", 403)
     ELSE /\ Len(inflight) < MaxInFlight
          /\ inflight' = Append(inflight,
               MessageRequest(u, ticketId, tickets[ticketId].status, message,
                              "push"))
          /\ last' = last

\* addMessage: ticketRepository.addMessage
StepPush(i) ==
  LET r == inflight[i]
      updatedTicket == addMessage(tickets, r.ticket, Message(r.user, r.message))
  IN /\ r.pc = "push"
     /\ Len(tickets[r.ticket].messages) < MaxMsgs
     /\ tickets' = updatedTicket
     /\ inflight' = [inflight EXCEPT ![i].pc = "status",
                                     ![i].data = updatedTicket[r.ticket].status]
     /\ last' = last
     /\ UNCHANGED <<products, carts, orders, gateway, accounts>>

\* addMessage: ticketRepository.updateStatus with the status computed from
\* the document read at the start, and the answer
StepStatus(i) ==
  LET r == inflight[i]
  IN /\ r.pc = "status"
     /\ tickets' = updateStatus(tickets, r.ticket, newStatus(r.status))
     /\ inflight' = Without(inflight, i)
     /\ last' = [Response("addMessage", 200) EXCEPT !.data = r.data]
     /\ UNCHANGED <<products, carts, orders, gateway, accounts>>

\* --------------------------------------------------------------- accounts
\* A user document; its _id is its position in `accounts'.  A document that
\* findByIdAndDelete removed keeps its position with deleted = TRUE.  The
\* username is not kept apart from the email (both are unique keys).
\* otpVerified is not a field of the document: it records that verifyOtp
\* answered 200 for the account.
Account(email, role, status, otp) ==
  [email |-> email, role |-> role, status |-> status, otp |-> otp,
   otpVerified |-> FALSE, addresses |-> "none", deleted |-> FALSE]

\* createSuperAdminUser: the one account the deployment starts with
SeedAccounts == <<Account("root", "SUPER_ADMIN", "ACTIVE", "")>>

Emails == {"a", "b"}

\* the code register generates and mails, and a code the owner was not sent
GeneratedOtp == "otp"
OtpInputs == {"", GeneratedOtp, "guess"}

\* req.body.addresses: missing or empty, an address lacking a required
\* field, every address complete
AddressInputs == {"none", "incomplete", "complete"}

\* UserRepository.findByEmail / findByEmailOrUsername: the _id, 0 for null
findByEmail(as, email) ==
  LET S == {i \in 1..Len(as) : ~as[i].deleted /\ as[i].email = email}
  IN IF S = {} THEN 0 ELSE CHOOSE i \in S : \A j \in S : i <= j

\* UserRepository.updateStatus
userUpdateStatus(as, userId, status) == [as EXCEPT ![userId].status = status]

\* UserRepository.clearOTP
clearOTP(as, userId) == [as EXCEPT ![userId].otp = ""]

\* UserController.register; valid: the body passes the field and password
\* checks
Register(email, valid) ==
  /\ UNCHANGED <<products, carts, orders, gateway, tickets, inflight>>
  /\ IF ~valid
     THEN /\ last' = Response("register", 400)
          /\ UNCHANGED accounts
     ELSE IF findByEmail(accounts, email) # 0
     THEN /\ last' = Response("register", 409)
          /\ UNCHANGED accounts
     ELSE /\ Len(accounts) < MaxAccounts
          /\ accounts' = Append(accounts,
                                Account(email, "USER", "INACTIVE", GeneratedOtp))
          /\ last' = Response("register", 201)

\* UserController.verifyOtp; expired: otpExpires < new Date()
VerifyOtp(email, otp, expired) ==
  /\ UNCHANGED <<products, carts, orders, gateway, tickets, inflight>>
  /\ LET user == findByEmail(accounts, email)
     IN IF email = "" \/ otp = ""
        THEN /\ last' = Response("verifyOtp", 400)
             /\ UNCHANGED accounts
        ELSE IF user = 0
        THEN /\ last' = Response("verifyOtp", 404)
             /\ UNCHANGED accounts
        ELSE IF accounts[user].otp = "" \/ accounts[user].otp # otp
        THEN /\ last' = Response("verifyOtp", 400)
             /\ UNCHANGED accounts
        ELSE IF expired
        THEN /\ last' = Response("verifyOtp", 400)
             /\ UNCHANGED accounts
        ELSE /\ accounts' =
                  [clearOTP(userUpdateStatus(accounts, user, "INACTIVE"), user)
                     EXCEPT ![user].otpVerified = TRUE]
             /\ last' = Response("verifyOtp", 200)

\* UserController.completeRegistration
CompleteRegistration(email, addresses) ==
  /\ UNCHANGED <<products, carts, orders, gateway, tickets, inflight>>
  /\ LET user == findByEmail(accounts, email)
     IN IF email = "" \/ addresses = "none"
        THEN /\ last' = Response("completeRegistration", 400)
             /\ UNCHANGED accounts
        ELSE IF user = 0
        THEN /\ last' = Response("completeRegistration", 404)
             /\ UNCHANGED accounts
        ELSE IF accounts[user].status # "INACTIVE"
        THEN /\ last' = Response("completeRegistration", 400)
             /\ UNCHANGED accounts
        ELSE IF addresses # "complete"
        THEN /\ last' = Response("completeRegistration", 400)
             /\ UNCHANGED accounts
        ELSE /\ accounts' = [accounts EXCEPT ![user].addresses = addresses,
                                             ![user].status = "ACTIVE"]
             /\ last' = Response("completeRegistration", 200)

\* UserController.login; password: bcrypt.compare's answer.  data: the email
\* the request named
Login(email, password) ==
  /\ UNCHANGED <<products, carts, orders, gateway, tickets, inflight>>
  /\ LET user == findByEmail(accounts, email)
         reply(status) == [Response("login", status) EXCEPT !.data = email]
     IN IF email = ""
        THEN /\ last' = reply(400)
             /\ UNCHANGED accounts
        ELSE IF user = 0
        THEN /\ last' = reply(401)
             /\ UNCHANGED accounts
        ELSE IF accounts[user].role = "USER" /\ accounts[user].status # "ACTIVE"
        THEN /\ last' = reply(403)
             /\ UNCHANGED accounts
        ELSE /\ accounts' =
                  IF accounts[user].role \in {"ADMIN", "SUPER_ADMIN"}
                     /\ accounts[user].status # "ACTIVE"
                  THEN [accounts EXCEPT ![user].status = "ACTIVE"]
                  ELSE accounts
             /\ last' = reply(IF password THEN 200 ELSE 401)

\* -------------------------------------------------------- user management
\* The caller of a route behind authenticateToken is the account its token
\* names.  authenticateToken and requireRole: 404 for a token whose account
\* is gone, 403 for a role outside `roles', 0 to go on.
requireRole(as, caller, roles) ==
  IF caller \notin 1..Len(as) \/ as[caller].deleted THEN 404
  ELSE IF as[caller].role \notin roles THEN 403
  ELSE 0

requireAdmin == {"ADMIN", "SUPER_ADMIN"}
requireSuperAdmin == {"SUPER_ADMIN"}

\* UserRepository.findById: the _id, 0 for null
userFindById(as, id) == IF id \in 1..Len(as) /\ ~as[id].deleted THEN id ELSE 0

\* the answer of a user-management route; data: the role of the caller
Managed(op, status, caller) ==
  [Response(op, status) EXCEPT
     !.data = IF userFindById(accounts, caller) = 0 THEN ""
              ELSE accounts[caller].role]

\* bodies of PUT /users/:id: fields of the user document, "" for one left out
UpdateInputs ==
  {[role |-> "SUPER_ADMIN", status |-> ""], [role |-> "USER", status |-> ""],
   [role |-> "", status |-> "INACTIVE"]}

\* UserRepository.updateById
userUpdateById(as, id, updateData) ==
  [as EXCEPT ![id].role = IF updateData.role = "" THEN @ ELSE updateData.role,
             ![id].status = IF updateData.status = "" THEN @
                            ELSE updateData.status]

\* UserRepository.delete
userDelete(as, id) == [as EXCEPT ![id].deleted = TRUE]

\* AdminController.updateUser (PUT /users/:id behind requireAdmin)
UpdateUser(caller, id, body) ==
  /\ UNCHANGED <<products, carts, orders, gateway, tickets, inflight>>
  /\ LET refused == requireRole(accounts, caller, requireAdmin)
     IN IF refused # 0
        THEN /\ last' = Managed("updateUser", refused, caller)
             /\ UNCHANGED accounts
        ELSE IF userFindById(accounts, id) = 0
        THEN /\ last' = Managed("updateUser", 404, caller)
             /\ UNCHANGED accounts
        ELSE /\ accounts' = userUpdateById(accounts, id, body)
             /\ last' = Managed("updateUser", 200, caller)

\* AdminController.deleteUser (DELETE /users/:id behind requireAdmin)
DeleteUser(caller, id) ==
  /\ UNCHANGED <<products, carts, orders, gateway, tickets, inflight>>
  /\ LET refused == requireRole(accounts, caller, requireAdmin)
     IN IF refused # 0
        THEN /\ last' = Managed("deleteUser", refused, caller)
             /\ UNCHANGED accounts
        ELSE IF userFindById(accounts, id) = 0
        THEN /\ last' = Managed("deleteUser", 404, caller)
             /\ UNCHANGED accounts
        ELSE /\ accounts' = userDelete(accounts, id)
             /\ last' = Managed("deleteUser", 200, caller)

\* AdminController.createAdmin (behind requireSuperAdmin)
CreateAdmin(caller, email) ==
  /\ UNCHANGED <<products, carts, orders, gateway, tickets, inflight>>
  /\ LET refused == requireRole(accounts, caller, requireSuperAdmin)
     IN IF refused # 0
        THEN /\ last' = Managed("createAdmin", refused, caller)
             /\ UNCHANGED accounts
        ELSE IF email = ""
        THEN /\ last' = Managed("createAdmin", 400, caller)
             /\ UNCHANGED accounts
        ELSE IF findByEmail(accounts, email) # 0
        THEN /\ last' = Managed("createAdmin", 409, caller)
             /\ UNCHANGED accounts
        ELSE /\ Len(accounts) < MaxAccounts
             /\ accounts' = Append(accounts, Account(email, "ADMIN", "ACTIVE", ""))
             /\ last' = Managed("createAdmin", 201, caller)

\* the checks deleteAdminUser, demoteAdminUser and updateAdminUser share: the
\* status they refuse the target with, 0 to go on
adminTarget(as, id) ==
  IF userFindById(as, id) = 0 THEN 404
  ELSE IF as[id].role = "SUPER_ADMIN" THEN 403
  ELSE IF as[id].role # "ADMIN" THEN 400
  ELSE 0

\* AdminController.deleteAdminUser (behind requireSuperAdmin)
DeleteAdminUser(caller, id) ==
  /\ UNCHANGED <<products, carts, orders, gateway, tickets, inflight>>
  /\ LET refused == requireRole(accounts, caller, requireSuperAdmin)
     IN IF refused # 0
        THEN /\ last' = Managed("deleteAdminUser", refused, caller)
             /\ UNCHANGED accounts
        ELSE IF adminTarget(accounts, id) # 0
        THEN /\ last' = Managed("deleteAdminUser", adminTarget(accounts, id), caller)
             /\ UNCHANGED accounts
        ELSE /\ accounts' = userDelete(accounts, id)
             /\ last' = Managed("deleteAdminUser", 200, caller)

\* AdminController.demoteAdminUser (behind requireSuperAdmin):
\* updateRole(id, USER)
DemoteAdminUser(caller, id) ==
  /\ UNCHANGED <<products, carts, orders, gateway, tickets, inflight>>
  /\ LET refused == requireRole(accounts, caller, requireSuperAdmin)
     IN IF refused # 0
        THEN /\ last' = Managed("demoteAdminUser", refused, caller)
             /\ UNCHANGED accounts
        ELSE IF adminTarget(accounts, id) # 0
        THEN /\ last' = Managed("demoteAdminUser", adminTarget(accounts, id), caller)
             /\ UNCHANGED accounts
        ELSE /\ accounts' = [accounts EXCEPT ![id].role = "USER"]
             /\ last' = Managed("demoteAdminUser", 200, caller)

\* AdminController.updateAdminUser (behind requireSuperAdmin) with the body
\* { status }; "" for a body without fields
UpdateAdminUser(caller, id, status) ==
  /\ UNCHANGED <<products, carts, orders, gateway, tickets, inflight>>
  /\ LET refused == requireRole(accounts, caller, requireSuperAdmin)
     IN IF refused # 0
        THEN /\ last' = Managed("updateAdminUser", refused, caller)
             /\ UNCHANGED accounts
        ELSE IF adminTarget(accounts, id) # 0
        THEN /\ last' = Managed("updateAdminUser", adminTarget(accounts, id), caller)
             /\ UNCHANGED accounts
        ELSE IF status \notin {"", "ACTIVE", "INACTIVE"} \/ status = ""
        THEN /\ last' = Managed("updateAdminUser", 400, caller)
             /\ UNCHANGED accounts
        ELSE /\ accounts' = userUpdateById(accounts, id,
                                           [role |-> "", status |-> status])
             /\ last' = Managed("updateAdminUser", 200, caller)

\* ---------------------------------------------------------- specification
Init ==
  /\ products = SeedCatalog
  /\ carts = <<>>
  /\ orders = <<>>
  /\ gateway = <<>>
  /\ tickets = <<>>
  /\ inflight = <<>>
  /\ accounts = SeedAccounts
  /\ last = NoLast

Next ==
  \/ \E id \in Identities : GetCart(id[1], id[2])
  \/ \E id \in Identities, p \in ProductIds, q \in QtyInputs :
       AddToCart(id[1], id[2], p, q)
  \/ \E id \in Identities, p \in ProductIds, q \in SetQtyInputs :
       UpdateCartItem(id[1], id[2], p, q)
  \/ \E id \in Identities, p \in ProductIds : RemoveFromCart(id[1], id[2], p)
  \/ \E id \in Identities : ClearCart(id[1], id[2])
  \/ \E u \in Users, g \in GuestIds : MergeGuestCart(u, g)

Spec == Init /\ [][Next]_vars

\* cart requests await by await: one product, one unit a request
ConcNext ==
  \/ \E id \in Identities : BeginGetCart(id[1], id[2])
  \/ \E id \in Identities : BeginAddToCart(id[1], id[2], "p1", 1)
  \/ \E u \in Users, g \in GuestIds : BeginMergeGuestCart(u, g)
  \/ \E i \in 1..Len(inflight) : StepCreate(i)
  \/ \E i \in 1..Len(inflight) : StepRead(i)
  \/ \E i \in 1..Len(inflight) : StepSave(i)
  \/ \E i \in 1..Len(inflight) : StepFindUser(i)
  \/ \E i \in 1..Len(inflight) : StepReown(i)
  \/ \E i \in 1..Len(inflight) : StepDeactivate(i)

ConcSpec == Init /\ [][ConcNext]_vars

\* a user fills a cart while the catalog is administered, and checks out:
\* with a body createOrder refuses, and with one it accepts, the gateway
\* answering or not
CheckoutNext ==
  \/ \E u \in Users, p \in ProductIds, q \in QtyInputs : AddToCart(u, 0, p, q)
  \/ \E p \in ProductIds, stock \in StockInputs : UpdateProduct(p, stock)
  \/ \E p \in ProductIds : DeleteProduct(p)
  \/ \E u \in Users, shippingAddress \in BOOLEAN, paymentMethod \in MethodInputs,
        urls \in BOOLEAN :
       /\ bodyError(shippingAddress, paymentMethod, urls) # ""
       /\ CreateOrder(u, shippingAddress, paymentMethod, urls, TRUE)
  \/ \E u \in Users, paymentMethod \in MethodInputs, urls \in BOOLEAN,
        up \in BOOLEAN :
       /\ bodyError(TRUE, paymentMethod, urls) = ""
       /\ CreateOrder(u, TRUE, paymentMethod, urls, up)

CheckoutSpec == Init /\ [][CheckoutNext]_vars

\* checkout of a cart whose products were renamed and repriced since they
\* were added
PriceNext ==
  \/ \E u \in Users, p \in ProductIds, q \in {1, 2} : AddToCart(u, 0, p, q)
  \/ \E p \in ProductIds, listing \in ListingInputs :
       UpdateProductListing(p, listing)
  \/ \E u \in Users, paymentMethod \in {"ONLINE", "COD"} :
       CreateOrder(u, TRUE, paymentMethod, TRUE, TRUE)

PriceSpec == Init /\ [][PriceNext]_vars

\* checkout await by await, with additions to the same cart
CheckoutConcNext ==
  \/ \E u \in Users, p \in ProductIds : AddToCart(u, 0, p, 1)
  \/ \E u \in Users, p \in ProductIds : RemoveFromCart(u, 0, p)
  \/ \E u \in Users, paymentMethod \in {"ONLINE", "COD"} :
       BeginCreateOrder(u, paymentMethod)
  \/ \E i \in 1..Len(inflight) : StepClear(i)

CheckoutConcSpec == Init /\ [][CheckoutConcNext]_vars

\* the life of an order: checkout of a one-product cart, payment at the
\* gateway, webhook calls of anyone, cancellation, administration.  A webhook
\* request is drawn with the fields its branch of handleWebhook reads.
PaymentNext ==
  \/ \E u \in Users : AddToCart(u, 0, "p2", 1)
  \/ \E u \in Users, paymentMethod \in {"ONLINE", "COD"}, up \in BOOLEAN :
       CreateOrder(u, TRUE, paymentMethod, TRUE, up)
  \/ \E sessionId \in 1..MaxOrders : GatewayPay(sessionId)
  \/ \E sig \in {"valid", "invalid"}, type \in TypeInputs :
       HandleWebhook(sig, type, 0, 0, "paid")
  \/ \E sig \in {"", "test-signature"},
        type \in TypeInputs \ {"checkout.session.completed"} :
       HandleWebhook(sig, type, 0, 0, "paid")
  \/ \E id \in 0..MaxOrders, orderNum \in 0..(MaxOrders + 1),
        payment_status \in PaidInputs :
       HandleWebhook("", "checkout.session.completed", id, orderNum,
                     payment_status)
  \/ \E u \in Users, orderId \in 1..(MaxOrders + 1), up \in BOOLEAN :
       CancelOrder(u, orderId, up)
  \/ \E u \in Strangers, orderId \in 1..MaxOrders : CancelOrder(u, orderId, TRUE)
  \/ \E orderId \in 1..(MaxOrders + 1), status \in StatusInputs :
       UpdateOrderStatus(orderId, status)

PaymentSpec == Init /\ [][PaymentNext]_vars

\* checkout, payment at the gateway and webhook calls of anyone, without
\* cancellation and administration
WebhookNext ==
  \/ \E u \in Users : AddToCart(u, 0, "p2", 1)
  \/ \E u \in Users, paymentMethod \in {"ONLINE", "COD"}, up \in BOOLEAN :
       CreateOrder(u, TRUE, paymentMethod, TRUE, up)
  \/ \E sessionId \in 1..MaxOrders : GatewayPay(sessionId)
  \/ \E sig \in {"valid", "invalid"}, type \in TypeInputs, id \in 1..MaxOrders :
       HandleWebhook(sig, type, id, 0, "paid")
  \/ \E sig \in {"", "test-signature"},
        type \in TypeInputs \ {"checkout.session.completed"} :
       HandleWebhook(sig, type, 0, 0, "paid")
  \/ \E sig \in {"", "test-signature"}, id \in 0..MaxOrders,
        orderNum \in 0..(MaxOrders + 1), payment_status \in PaidInputs :
       HandleWebhook(sig, "checkout.session.completed", id, orderNum,
                     payment_status)

WebhookSpec == Init /\ [][WebhookNext]_vars

\* webhook bodies sent by anybody, naming any session and any order, with one
\* order more than the other specifications store
SessionNext ==
  \/ \E u \in Users : AddToCart(u, 0, "p2", 1)
  \/ \E u \in Users, paymentMethod \in {"ONLINE", "COD"} :
       CreateOrderWithin(MaxOrders + 1, u, TRUE, paymentMethod, TRUE, TRUE)
  \/ \E sessionId \in 1..(MaxOrders + 1) : GatewayPay(sessionId)
  \/ \E id \in 1..(MaxOrders + 1), orderNum \in 1..(MaxOrders + 1) :
       HandleWebhook("", "checkout.session.completed", id, orderNum, "paid")

SessionSpec == Init /\ [][SessionNext]_vars

\* tickets of the users and their administration
TicketNext ==
  \/ \E u \in Users, message \in {"", "m1"} : CreateTicket(u, message, "")
  \/ \E u \in Users \cup Strangers, ticketId \in 1..(MaxTickets + 1),
        message \in MsgInputs :
       AddMessage(u, ticketId, message)
  \/ \E u \in Users \cup Strangers, ticketId \in 1..(MaxTickets + 1) :
       CloseTicket(u, ticketId)
  \/ \E ticketId \in 1..(MaxTickets + 1), status \in TicketStatusInputs :
       UpdateTicketStatus(ticketId, status)
  \/ \E ticketId \in 1..(MaxTickets + 1), priority \in PriorityInputs :
       UpdateTicketPriority(ticketId, priority)
  \/ \E ticketId \in 1..(MaxTickets + 1) : EscalateTicket(ticketId)

TicketSpec == Init /\ [][TicketNext]_vars

\* customer messages await by await, with the administrators' status updates
TicketConcNext ==
  \/ \E u \in Users : CreateTicket(u, "m1", "")
  \/ \E u \in Users \cup Strangers, ticketId \in 1..(MaxTickets + 1),
        message \in {"", "m2"} :
       BeginAddMessage(u, ticketId, message)
  \/ \E i \in 1..Len(inflight) : StepPush(i)
  \/ \E i \in 1..Len(inflight) : StepStatus(i)
  \/ \E ticketId \in 1..MaxTickets, status \in TicketStatusInputs :
       UpdateTicketStatus(ticketId, status)

TicketConcSpec == Init /\ [][TicketConcNext]_vars

\* the registration flow: the public user routes
UserNext ==
  \/ \E email \in Emails, valid \in BOOLEAN : Register(email, valid)
  \/ \E email \in Emails \cup {""}, otp \in OtpInputs, expired \in BOOLEAN :
       VerifyOtp(email, otp, expired)
  \/ \E email \in Emails \cup {""}, addresses \in AddressInputs :
       CompleteRegistration(email, addresses)
  \/ \E email \in Emails \cup {"", "root"}, password \in BOOLEAN :
       Login(email, password)

UserSpec == Init /\ [][UserNext]_vars

\* the user-management routes, called with the token of any account
AdminNext ==
  \/ Register("a", TRUE)
  \/ \E caller \in 1..MaxAccounts, id \in 1..MaxAccounts, body \in UpdateInputs :
       UpdateUser(caller, id, body)
  \/ \E caller \in 1..MaxAccounts, id \in 1..MaxAccounts : DeleteUser(caller, id)
  \/ \E caller \in 1..MaxAccounts, email \in {"", "b"} :
       CreateAdmin(caller, email)
  \/ \E caller \in 1..MaxAccounts, id \in 1..MaxAccounts :
       DeleteAdminUser(caller, id)
  \/ \E caller \in 1..MaxAccounts, id \in 1..MaxAccounts :
       DemoteAdminUser(caller, id)
  \/ \E caller \in 1..MaxAccounts, id \in 1..MaxAccounts,
        status \in {"", "INACTIVE", "BLOCKED"} :
       UpdateAdminUser(caller, id, status)

AdminSpec == Init /\ [][AdminNext]_vars

\* ================================================================ claims
\* quantity of product p over the lines of a cart, and the number of its lines
RECURSIVE QtyOf(_, _)
QtyOf(items, p) ==
  IF items = <<>> THEN 0
  ELSE (IF Head(items).productId = p THEN Head(items).quantity ELSE 0)
       + QtyOf(Tail(items), p)

LinesOf(items, p) == Cardinality({i \in 1..Len(items) : items[i].productId = p})

RECURSIVE AmountOf(_)
AmountOf(items) ==
  IF items = <<>> THEN 0
  ELSE Head(items).price * Head(items).quantity + AmountOf(Tail(items))

RECURSIVE QuantityOf(_)
QuantityOf(items) ==
  IF items = <<>> THEN 0 ELSE Head(items).quantity + QuantityOf(Tail(items))

\* C1: every stored cart has totalItems equal to the sum of its line
\* quantities and totalAmount equal to the sum of price*quantity of its lines
C1_TotalsMatchLines ==
  \A c \in 1..Len(carts) :
    /\ carts[c].totalItems = QuantityOf(carts[c].items)
    /\ carts[c].totalAmount = AmountOf(carts[c].items)

\* the cart A(qty 2, price 10), B(qty 1, price 5) right after an add: 3 / 25
C1_Witness ==
  /\ last.op = "addToCart" /\ last.status = 200
  /\ \E c \in {last.cart} :
       /\ carts[c].items =
            <<[productId |-> "p1", title |-> "A", price |-> 10, quantity |-> 2],
              [productId |-> "p2", title |-> "B", price |-> 5, quantity |-> 1]>>
       /\ carts[c].totalItems = 3
       /\ carts[c].totalAmount = 25

\* C2: an order that is SHIPPED or DELIVERED is not set to CANCELLED by the
\* next operation, whichever it is
C2_ShippedNeverCancelled ==
  [][\A o \in 1..Len(orders) :
       orders[o].orderStatus \in {"SHIPPED", "DELIVERED"}
       => orders'[o].orderStatus # "CANCELLED"]_vars

\* a line createOrder must refuse: its product is gone or short on stock
BadLine(ps, item) ==
  \/ ~ps[item.productId].exists
  \/ item.quantity > ps[item.productId].stock

\* C3: createOrder on a cart with a line whose quantity exceeds the stock, or
\* whose product is gone, is rejected: no order is created and the cart is
\* left as it was
C3_CreateOrderAllOrNothing ==
  [][(/\ last'.op = "createOrder"
      /\ \E u \in Users :
           \A c \in FindByUserId(carts, u) :
             c # 0 /\ \E i \in 1..Len(carts[c].items) :
                        BadLine(products, carts[c].items[i]))
     => /\ last'.status = 400
        /\ orders' = orders
        /\ gateway' = gateway
        /\ carts' = carts]_vars

\* a checkout refused for its second line, the first one being in stock
C3_Witness ==
  /\ last.op = "createOrder" /\ last.status = 400
  /\ orders = <<>>
  /\ \E c \in 1..Len(carts) :
       /\ carts[c].userId \in Users /\ carts[c].isActive
       /\ Len(carts[c].items) = 2
       /\ ~BadLine(products, carts[c].items[1])
       /\ BadLine(products, carts[c].items[2])
       /\ last.product = carts[c].items[2].productId

\* C4: no user has two active carts
C4_OneActiveCartPerUser ==
  \A u \in Users :
    Cardinality({c \in 1..Len(carts) : carts[c].userId = u /\ carts[c].isActive}) <= 1

\* C5: a step that turns an order's paymentStatus to PAID is a webhook
\* request whose signature the gateway made
C5_PaidOnlyByVerifiedWebhook ==
  [][\A o \in 1..Len(orders) :
       (orders[o].paymentStatus # "PAID" /\ orders'[o].paymentStatus = "PAID")
       => (last'.op = "handleWebhook" /\ last'.data = "valid")]_vars

\* C6: mergeGuestCart for a user who has an active cart: afterwards the user
\* cart has, per product of either cart, one line with the summed quantity,
\* and the guest cart is inactive
C6_MergeSumsByProduct ==
  [][\A u \in Users, g \in 1..Len(carts) :
       \A uc \in FindByUserId(carts, u) \ {0, g} :
         (last' = Response("mergeGuestCart", 200) /\ MergeGuestCart(u, g))
         => /\ \A p \in ProductIds :
                 LET sum == QtyOf(carts[uc].items, p) + QtyOf(carts[g].items, p)
                 IN /\ QtyOf(carts'[uc].items, p) = sum
                    /\ LinesOf(carts'[uc].items, p) = IF sum > 0 THEN 1 ELSE 0
            /\ ~carts'[g].isActive]_vars

\* right after a merge: a deactivated ownerless cart with one unit of a
\* product, and the user's cart holding more units of it on one line
C6_Witness ==
  /\ last = Response("mergeGuestCart", 200)
  /\ \E g \in 1..Len(carts), uc \in 1..Len(carts), p \in ProductIds :
       /\ ~carts[g].isActive /\ carts[g].userId = NoUser
       /\ carts[uc].isActive /\ carts[uc].userId \in Users
       /\ QtyOf(carts[g].items, p) = 1
       /\ QtyOf(carts[uc].items, p) = 2
       /\ LinesOf(carts[uc].items, p) = 1

\* C7: mergeGuestCart for a user without an active cart: the guest cart gets
\* the user's id and is otherwise unchanged; no cart is created or modified
C7_MergeReowns ==
  [][\A u \in Users, g \in 1..Len(carts) :
       (/\ last' = Response("mergeGuestCart", 200)
        /\ FindByUserId(carts, u) = {0}
        /\ MergeGuestCart(u, g))
       => /\ Len(carts') = Len(carts)
          /\ carts'[g].userId = u
          /\ carts'[g].items = carts[g].items
          /\ carts'[g].totalItems = carts[g].totalItems
          /\ carts'[g].totalAmount = carts[g].totalAmount
          /\ carts'[g].isActive = carts[g].isActive
          /\ \A c \in 1..Len(carts) : c # g => carts'[c] = carts[c]]_vars

\* right after a merge, with no cart ever deactivated: the user owns a filled
\* cart (the one re-owned) and another cart is stored beside it
C7_Witness ==
  /\ last = Response("mergeGuestCart", 200)
  /\ Len(carts) >= 2
  /\ \A c \in 1..Len(carts) : carts[c].isActive
  /\ \E c \in 1..Len(carts) :
       /\ carts[c].userId \in Users
       /\ carts[c].totalItems >= 2

\* C8: addToCart of product p, quantity q, on a cart with a line for p: that
\* line's quantity grows by q, no line is added, the other lines are unchanged
C8_AddExistingIncrements ==
  [][(/\ last'.op = "addToCart" /\ last'.status = 200
      /\ last'.cart \in 1..Len(carts)
      /\ LinesOf(carts[last'.cart].items, last'.product) > 0)
     => LET old == carts[last'.cart].items
            new == carts'[last'.cart].items
        IN /\ Len(new) = Len(old)
           /\ \A i \in 1..Len(old) :
                new[i] = IF old[i].productId = last'.product
                         THEN [old[i] EXCEPT !.quantity = @ + last'.qty]
                         ELSE old[i]]_vars

\* an add that raised the first line of a two-line cart
C8_Witness ==
  /\ last.op = "addToCart" /\ last.status = 200
  /\ Len(carts[last.cart].items) = 2
  /\ carts[last.cart].items[1].productId = last.product
  /\ carts[last.cart].items[1].quantity > last.qty

\* C9: updateCartItem with a quantity of 0 or less for a product in the cart
\* removes that product's line
C9_SetZeroRemovesLine ==
  [][\A id \in Identities, p \in ProductIds, q \in {-1, 0} :
       \A c \in getOrCreateLookup(carts, id[1], id[2]) \ {0} :
         (/\ last'.op = "updateCartItem"
          /\ LinesOf(carts[c].items, p) > 0
          /\ UpdateCartItem(id[1], id[2], p, q))
         => LinesOf(carts'[c].items, p) = 0]_vars

\* C10: addMessage of the owner on a ticket that is waiting_customer: the
\* message is appended and the ticket is open
C10_CustomerMessageReopens ==
  [][\A u \in Users \cup Strangers, t \in 1..Len(tickets), m \in MsgInputs :
       (/\ last'.op = "addMessage"
        /\ m # ""
        /\ tickets[t].user = u
        /\ tickets[t].status = "waiting_customer"
        /\ AddMessage(u, t, m))
       => /\ tickets'[t].messages = Append(tickets[t].messages, Message(u, m))
          /\ tickets'[t].status = "open"]_vars

\* the answer to a message shows the ticket waiting for the customer, and
\* the stored ticket is open with the message after the first one
C10_Witness ==
  /\ last.op = "addMessage" /\ last.status = 200
  /\ last.data = "waiting_customer"
  /\ \E t \in 1..Len(tickets) :
       /\ tickets[t].status = "open"
       /\ Len(tickets[t].messages) = 2


\* C11: createOrder with paymentMethod ONLINE and no successUrl or cancelUrl
\* is answered 400; no order is stored, no checkout session is asked of the
\* gateway and no cart changes
C11_OnlineWithoutUrlsRejected ==
  [][\A u \in Users, shippingAddress \in BOOLEAN, up \in BOOLEAN :
       (/\ last'.op = "createOrder"
        /\ CreateOrder(u, shippingAddress, "ONLINE", FALSE, up))
       => /\ last'.status = 400
          /\ orders' = orders
          /\ gateway' = gateway
          /\ carts' = carts]_vars

\* the 400 for the missing URLs, given to a user whose cart could be ordered
C11_Witness ==
  /\ last = Rejected("Success URL and cancel URL are required for online payment")
  /\ orders = <<>> /\ gateway = <<>>
  /\ \E c \in 1..Len(carts) :
       /\ carts[c].userId \in Users /\ carts[c].isActive
       /\ Len(carts[c].items) > 0
       /\ \A i \in 1..Len(carts[c].items) : ~BadLine(products, carts[c].items[i])


\* the checkout-session-completed events a sender can post without a
\* signature
CheckoutEvents ==
  {BodyEvent("checkout.session.completed", id, orderNum, payment_status) :
     id \in 0..Len(gateway) + 1, orderNum \in 0..Len(orders) + 1,
     payment_status \in PaidInputs}

\* C12: a checkout-session-completed webhook whose order number is that of
\* no active order changes no order, reports "not processed" and is
\* answered 200
C12_UnknownOrderNotProcessed ==
  [][(last'.op = "handleWebhook" /\ last'.data # "invalid") =>
       \A orderNum \in 0..(Len(orders) + 1) :
         ~(orderNum \in 1..Len(orders) /\ orders[orderNum].isActive) =>
           \A id \in 0..(Len(gateway) + 1), payment_status \in PaidInputs :
             HandleWebhook(last'.data, "checkout.session.completed", id,
                           orderNum, payment_status)
             => /\ orders' = orders
                /\ last'.status = 200
                /\ ~last'.processed]_vars

\* the answer "Order not found" for a number that is not an active order's,
\* an order being stored and the session named by the event being the
\* gateway's
C12_Witness ==
  /\ last.op = "handleWebhook" /\ last.status = 200 /\ ~last.processed
  /\ last.message = "Order not found"
  /\ last.order > 0
  /\ ~(last.order \in 1..Len(orders) /\ orders[last.order].isActive)
  /\ \E o \in 1..Len(orders) : orders[o].isActive /\ orders[o].transactionId = 0
  /\ Len(gateway) > 0

\* C13: a checkout-session-completed event naming a session of the gateway
\* and an active order writes PAID on that order if the gateway has the
\* session as paid and PENDING if not, whatever status the event carries
C13_StatusFromGateway ==
  [][(last'.op = "handleWebhook" /\ last'.data \in {"", "test-signature"}) =>
       \A orderNum \in 1..Len(orders) :
         orders[orderNum].isActive =>
           \A id \in 1..Len(gateway), payment_status \in PaidInputs :
             HandleWebhook(last'.data, "checkout.session.completed", id,
                           orderNum, payment_status)
             => orders'[orderNum].paymentStatus =
                  IF gateway[id].payment_status = "paid" THEN "PAID"
                  ELSE "PENDING"]_vars

\* a processed event left its order PENDING with the session as transaction:
\* the gateway has that session unpaid
C13_Witness ==
  /\ last.op = "handleWebhook" /\ last.processed
  /\ last.order \in 1..Len(orders)
  /\ orders[last.order].paymentStatus = "PENDING"
  /\ orders[last.order].transactionId \in 1..Len(gateway)
  /\ gateway[orders[last.order].transactionId].payment_status = "unpaid"

\* C14: delivering an event again, the gateway being as it was, leaves the
\* orders as the first delivery left them
C14_ReplayChangesNothing ==
  \A e \in CheckoutEvents :
    LET first == processWebhookEvent(orders, gateway, e)
        second == processWebhookEvent(first.orders, gateway, e)
    IN second.orders = first.orders

\* right after a processed delivery that set PAID: the event is known from
\* the order's transaction id, and a second delivery would be processed too
C14_Witness ==
  /\ last.op = "handleWebhook" /\ last.processed
  /\ last.order \in 1..Len(orders)
  /\ orders[last.order].paymentStatus = "PAID"
  /\ LET e == BodyEvent("checkout.session.completed",
                        orders[last.order].transactionId, last.order, "paid")
     IN /\ processWebhookEvent(orders, gateway, e).processed
        /\ processWebhookEvent(orders, gateway, e).orders = orders


\* user u has an active cart that createOrder accepts: it has lines, and
\* each is of a product of the catalog with the stock for it
Orderable(u) ==
  \E c \in FindByUserId(carts, u) \ {0} :
    /\ carts[c].items # <<>>
    /\ \A i \in 1..Len(carts[c].items) : ~BadLine(products, carts[c].items[i])

\* the carts the user of order o may be using
CartsOf(cs, o) == {c \in 1..Len(cs) : cs[c].userId = o.userId /\ cs[c].isActive}

\* C15: an ONLINE createOrder that gets as far as the gateway, with the
\* gateway failing: one order is stored and it is inactive, the answer is an
\* error, no session exists afterwards that did not before (the request is
\* not made again) and nothing else changes
C15_GatewayFailureDeactivates ==
  [][\A u \in Users :
       (/\ last'.op = "createOrder"
        /\ Orderable(u)
        /\ CreateOrder(u, TRUE, "ONLINE", TRUE, FALSE))
       => /\ last'.status = 500
          /\ Len(orders') = Len(orders) + 1
          /\ ~orders'[Len(orders')].isActive
          /\ SubSeq(orders', 1, Len(orders)) = orders
          /\ gateway' = gateway
          /\ carts' = carts]_vars

\* the 500 of a checkout: the order it stored is inactive, the gateway has no
\* session and the user's cart still has its lines
C15_Witness ==
  /\ last = Response("createOrder", 500)
  /\ Len(orders) > 0
  /\ ~orders[Len(orders)].isActive
  /\ orders[Len(orders)].paymentMethod = "ONLINE"
  /\ gateway = <<>>
  /\ \E c \in CartsOf(carts, orders[Len(orders)]) : carts[c].items # <<>>

C17_OrderedCartDeactivated ==
  [][(last'.op = "createOrder" /\ last'.status = 201)
     => \A c \in 1..Len(carts) :
          (carts[c].items # <<>> /\ carts'[c].items = <<>>)
          => ~carts'[c].isActive]_vars


\* C18: cancelOrder by the owner of an order that is not SHIPPED or
\* DELIVERED is answered 200 and leaves the order CANCELLED, whether the
\* gateway answers the refund request or not; for a PAID order with a
\* checkout session the gateway has as paid, a refund request the gateway
\* answers leaves the session refunded
C18_CancelDespiteRefundFailure ==
  [][last'.op = "cancelOrder" =>
       \A u \in Users, o \in 1..Len(orders), up \in BOOLEAN :
         (/\ orders[o].userId = u
          /\ orders[o].orderStatus \notin {"SHIPPED", "DELIVERED"}
          /\ CancelOrder(u, o, up))
         => /\ last'.status = 200
            /\ orders'[o].orderStatus = "CANCELLED"
            /\ (/\ up
                /\ orders[o].paymentStatus = "PAID"
                /\ orders[o].sessionId \in 1..Len(gateway)
                /\ gateway[orders[o].sessionId].payment_status = "paid")
               => gateway'[orders[o].sessionId].refunded]_vars

\* the 200 of a cancellation whose refund failed: the order is PAID and
\* CANCELLED, and the gateway has its session paid and not refunded
C18_Witness ==
  /\ last = Response("cancelOrder", 200)
  /\ \E o \in 1..Len(orders) :
       /\ orders[o].orderStatus = "CANCELLED"
       /\ orders[o].paymentStatus = "PAID"
       /\ orders[o].sessionId \in 1..Len(gateway)
       /\ gateway[orders[o].sessionId].payment_status = "paid"
       /\ ~gateway[orders[o].sessionId].refunded


\* C19: no ticket operation removes a ticket, and each leaves every ticket's
\* earlier message list as a prefix of its message list
C19_MessagesAppendOnly ==
  [][/\ Len(tickets') >= Len(tickets)
     /\ \A t \in 1..Len(tickets) :
          /\ Len(tickets'[t].messages) >= Len(tickets[t].messages)
          /\ SubSeq(tickets'[t].messages, 1, Len(tickets[t].messages))
               = tickets[t].messages]_vars

\* an administrator's update answered 200 on a ticket that has the
\* customer's opening message and a later one, in that order
C19_Witness ==
  /\ last.op \in {"updateTicketStatus", "updateTicketPriority", "escalateTicket"}
  /\ last.status = 200
  /\ \E t \in 1..Len(tickets), u \in Users :
       tickets[t].messages = <<Message(u, "m1"), Message(u, "m2")>>

\* C20: a webhook request changes no field of an order but paymentStatus and
\* transactionId; cancelOrder and the administrator's updateOrderStatus
\* change no field of an order but orderStatus; none of them adds or removes
\* an order
C20_PaymentAndFulfilmentIndependent ==
  [][/\ last'.op = "handleWebhook" =>
          /\ Len(orders') = Len(orders)
          /\ \A o \in 1..Len(orders) :
               orders'[o] = [orders[o] EXCEPT
                               !.paymentStatus = orders'[o].paymentStatus,
                               !.transactionId = orders'[o].transactionId]
     /\ last'.op \in {"cancelOrder", "updateOrderStatus"} =>
          /\ Len(orders') = Len(orders)
          /\ \A o \in 1..Len(orders) :
               orders'[o] = [orders[o] EXCEPT
                               !.orderStatus = orders'[o].orderStatus]]_vars

\* the administrator's update answered 200 on an order the webhook marked
\* PAID: it is SHIPPED and still PAID with its transaction id
C20_Witness ==
  /\ last = Response("updateOrderStatus", 200)
  /\ \E o \in 1..Len(orders) :
       /\ orders[o].orderStatus = "SHIPPED"
       /\ orders[o].paymentStatus = "PAID"
       /\ orders[o].transactionId # 0

\* C21: a USER-role account is ACTIVE (and so can log in) only after an OTP
\* verification succeeded for that account; completeRegistration activates
\* only an account whose OTP was verified.
C21_ActiveOnlyAfterVerifiedOtp ==
  \A a \in 1..Len(accounts) :
    (accounts[a].role = "USER" /\ accounts[a].status = "ACTIVE")
    => accounts[a].otpVerified

\* C22: the order a createOrder answered 201 for has one line per line of the
\* cart the request read, in the cart's order, with the cart line's product
\* and quantity and with the title and the price the catalog has during the
\* request; totalItems and totalAmount are the sums over these lines; the
\* order starts PENDING / PENDING whatever the payment method
C22_OrderFromCartAtCatalogPrice ==
  [][(last'.op = "createOrder" /\ last'.status = 201)
     => /\ Len(orders') = Len(orders) + 1
        /\ LET order == orders'[Len(orders')]
           IN /\ order.paymentStatus = "PENDING"
              /\ order.orderStatus = "PENDING"
              /\ order.totalItems = QuantityOf(order.items)
              /\ order.totalAmount = AmountOf(order.items)
              /\ \A c \in CartsOf(carts, order) :
                   /\ Len(order.items) = Len(carts[c].items)
                   /\ \A i \in 1..Len(order.items) :
                        LET line == carts[c].items[i]
                        IN /\ order.items[i].productId = line.productId
                           /\ order.items[i].quantity = line.quantity
                           /\ order.items[i].title = products[line.productId].title
                           /\ order.items[i].price = products[line.productId].price]_vars

\* a COD order of two lines, the first of a product renamed and repriced after
\* it was put in the cart: the order has the new title and price, 2 x 7 + 5
C22_Witness ==
  /\ last = Response("createOrder", 201)
  /\ Len(orders) > 0
  /\ LET order == orders[Len(orders)]
     IN /\ order.paymentMethod = "COD"
        /\ order.items =
             <<[productId |-> "p1", title |-> "A2", price |-> 7, quantity |-> 2],
               [productId |-> "p2", title |-> "B", price |-> 5, quantity |-> 1]>>
        /\ order.totalItems = 3
        /\ order.totalAmount = 19
        /\ order.paymentStatus = "PENDING" /\ order.orderStatus = "PENDING"

\* C23: when the gateway delivers the (signed) checkout.session.completed
\* event of a session that is paid, the handler processes it and the order
\* createOrder made that session for becomes PAID
C23_SessionCompletedMarksPaid ==
  [][(last'.op = "handleWebhook" /\ last'.data = "valid")
     => \A s \in 1..Len(gateway) :
          (/\ gateway[s].payment_status = "paid"
           /\ HandleWebhook("valid", "checkout.session.completed", s, 0, "paid"))
          => \A o \in 1..Len(orders) :
               (orders[o].isActive /\ orders[o].sessionId = s)
               => /\ last'.processed
                  /\ orders'[o].paymentStatus = "PAID"]_vars

\* a cart request without an authenticated user, presenting guest id g
GuestRequest(g) ==
  \/ GetCart(NoUser, g)
  \/ \E p \in ProductIds, q \in QtyInputs : AddToCart(NoUser, g, p, q)
  \/ \E p \in ProductIds, q \in SetQtyInputs : UpdateCartItem(NoUser, g, p, q)
  \/ \E p \in ProductIds : RemoveFromCart(NoUser, g, p)
  \/ ClearCart(NoUser, g)

\* C24: a cart request without an authenticated user, whatever guest id it
\* presents, changes no cart that has an owner and is answered with no such
\* cart
C24_GuestNeverTouchesOwnedCart ==
  [][\A g \in GuestIds :
       GuestRequest(g)
       => /\ \A c \in 1..Len(carts) :
               carts[c].userId # NoUser => carts'[c] = carts[c]
          /\ last'.cart \in 1..Len(carts') => carts'[last'.cart].userId = NoUser]_vars

\* C25: the status write that ends a customer's addMessage on a ticket it
\* read with a status other than waiting_customer leaves the ticket's status
\* as it is at that moment, whatever an administrator has set meanwhile
C25_CustomerMessageKeepsStatus ==
  [][\A i \in 1..Len(inflight) :
       (/\ inflight[i].pc = "status"
        /\ inflight[i].status # "waiting_customer"
        /\ StepStatus(i))
       => tickets'[inflight[i].ticket].status
            = tickets[inflight[i].ticket].status]_vars

\* C26: a mergeGuestCart request that moves lines into the caller's cart or
\* re-owns the cart named by the cookie names a cart that has no owner and is
\* active
C26_MergeOnlyActiveGuestCart ==
  [][(/\ last'.op = "mergeGuestCart"
      /\ \E c \in 1..Len(carts) : \/ carts'[c].items # carts[c].items
                                  \/ carts'[c].userId # carts[c].userId)
     => \A u \in Users, g \in GuestIds :
          MergeGuestCart(u, g)
          => /\ carts[g].userId = NoUser
             /\ carts[g].isActive]_vars

\* C27: when the webhook handler has processed a checkout event for an order,
\* the session whose state it retrieved from the gateway (which it stores as
\* the order's transactionId) is the session createOrder persisted on that
\* order as its sessionId
C27_UpdatedFromOwnSession ==
  [][(last'.op = "handleWebhook" /\ last'.processed)
     => /\ last'.order \in 1..Len(orders')
        /\ orders'[last'.order].transactionId = orders'[last'.order].sessionId]_vars

ManagementOps ==
  {"updateUser", "deleteUser", "createAdmin", "deleteAdminUser",
   "demoteAdminUser", "updateAdminUser"}

\* C28: a user-management request of a caller with role ADMIN leaves every
\* SUPER_ADMIN account as it is, changes no account's role, and creates,
\* changes and deletes no administrator account
C28_AdminCannotTouchAdminsOrRoles ==
  [][(last'.op \in ManagementOps /\ last'.data = "ADMIN")
     => /\ Len(accounts') = Len(accounts)
        /\ \A a \in 1..Len(accounts) :
             /\ accounts'[a].role = accounts[a].role
             /\ accounts[a].role \in {"ADMIN", "SUPER_ADMIN"}
                => accounts'[a] = accounts[a]]_vars

\* C29: the refund of an order is requested from the gateway at most once: a
\* cancelOrder request that gets as far as the refund (the order is PAID and
\* has a session) never finds that session already refunded on an earlier
\* request
C29_RefundRequestedOnce ==
  [][last'.op = "cancelOrder"
     => \A u \in Users, o \in 1..Len(orders) :
          (/\ CancelOrder(u, o, TRUE)
           /\ last'.status = 200
           /\ orders[o].paymentStatus = "PAID"
           /\ orders[o].sessionId \in 1..Len(gateway))
          => ~gateway[orders[o].sessionId].refunded]_vars

\* C30: every line the cart has when createOrder clears it is a line of the
\* order that request created, with at least its quantity
C30_ClearedLinesAreOrdered ==
  [][\A i \in 1..Len(inflight) :
       (inflight[i].pc = "clear" /\ StepClear(i))
       => \A l \in 1..Len(carts[inflight[i].cart].items) :
            LET line == carts[inflight[i].cart].items[l]
            IN QtyOf(orders[inflight[i].order].items, line.productId)
                 >= line.quantity]_vars

============================================================================
